---- MODULE Spec2Model ----
(***************************************************************************)
(* Model of src/chainlit_app.py: the chat front-end of GotionGPT.          *)
(*                                                                         *)
(* Texts are sequences of tokens (a digit run, a field keyword, a          *)
(* delimiter, white space, a float literal, a sign, any other word).       *)
(* handle_message is cut into atomic steps at its await points; the        *)
(* animate_thinking task of a turn runs interleaved with them.             *)
(***************************************************************************)
EXTENDS Integers, Sequences, FiniteSets, TLC

\* ------------------------------------------------------------------ bounds
\* number of inbound messages handled in one behaviour
MaxTurns == 3
\* number of times the loop of animate_thinking wakes from its sleep
MaxTicks == 1

\* ------------------------------------------------------------------ texts
Tok(c, s, n) == [c |-> c, s |-> s, n |-> n]
Num(n) == Tok("num", "", n)
Kw(s) == Tok("kw", s, 0)
UpperKw(s) == Tok("KW", s, 0)
Sep(s) == Tok("sep", s, 0)
Sp == Tok("sp", " ", 0)
Word(s) == Tok("word", s, 0)
FloatLit(s) == Tok("flit", s, 0)
Minus == Tok("sign", "-", 0)

\* str.lower() on one token: only an upper-case keyword changes class
Lower(tok) == IF tok.c = "KW" THEN Kw(tok.s) ELSE tok

\* re.sub(r"[，、;|]", ",", ...) on one token
AltDelimiters == {"fullwidth_comma", "ideographic_comma", ";", "|"}
\* mutant: the pipe is missing from the character class
ReplaceDelimiter_NoPipe(tok) ==
    IF tok.c = "sep" /\ tok.s \in (AltDelimiters \ {"|"}) THEN Sep(",") ELSE tok

ReplaceDelimiter(tok) ==
    IF tok.c = "sep" /\ tok.s \in AltDelimiters THEN Sep(",") ELSE tok

clean_text(text) == [i \in 1..Len(text) |-> ReplaceDelimiter(Lower(text[i]))]

FieldNames == <<"Length_pack", "Width_pack", "Height_pack", "Energy", "Total_Voltage">>

field_patterns ==
    [Length_pack |-> {"length", "long"},
     Width_pack |-> {"width", "wide"},
     Height_pack |-> {"height", "tall"},
     Energy |-> {"energy", "capacity"},
     Total_Voltage |-> {"voltage"}]

\* a float value: finite (v), infinite or not-a-number
Fin(v) == [k |-> "fin", v |-> v]
Inf(sign) == [k |-> "inf", v |-> sign]
NaN == [k |-> "nan", v |-> 0]

Min(S) == CHOOSE x \in S : \A y \in S : x <= y

\* re.search(pattern, clean): the positions of the keyword alternation that
\* have a digit run somewhere after them; the leftmost one is the match
MatchStarts(clean, key) ==
    {p \in 1..Len(clean) :
        /\ clean[p].c = "kw"
        /\ clean[p].s \in field_patterns[key]
        /\ \E q \in (p+1)..Len(clean) : clean[q].c = "num"}

\* mutant: the first digit run of the text, wherever the keyword stands
MatchGroup2_FirstNumber(clean, key) ==
    Fin(clean[Min({r \in 1..Len(clean) : clean[r].c = "num"})].n)

\* match.group(2): the first digit run after the matched keyword
MatchGroup2(clean, key) ==
    LET p == Min(MatchStarts(clean, key))
        q == Min({r \in (p+1)..Len(clean) : clean[r].c = "num"})
    IN Fin(clean[q].n)

extracted(clean) ==
    {FieldNames[i] : i \in {j \in 1..5 : MatchStarts(clean, FieldNames[j]) # {}}}

\* str.split(","): the pieces between the commas
RECURSIVE SplitComma(_)
SplitComma(s) ==
    IF \A i \in 1..Len(s) : s[i] # Sep(",")
    THEN <<s>>
    ELSE LET p == Min({i \in 1..Len(s) : s[i] = Sep(",")})
         IN <<SubSeq(s, 1, p-1)>> \o SplitComma(SubSeq(s, p+1, Len(s)))

\* str.strip(): drop leading and trailing white space
RECURSIVE Strip(_)
Strip(s) ==
    IF s = <<>> THEN s
    ELSE IF Head(s).c = "sp" THEN Strip(Tail(s))
    ELSE IF s[Len(s)].c = "sp" THEN Strip(SubSeq(s, 1, Len(s)-1))
    ELSE s

\* float(x) accepts an optionally signed digit run or float literal
FloatOk(x) ==
    \/ Len(x) = 1 /\ x[1].c \in {"num", "flit"}
    \/ Len(x) = 2 /\ x[1].c = "sign" /\ x[2].c \in {"num", "flit"}

FloatOf(x) ==
    LET sign == IF Len(x) = 2 THEN -1 ELSE 1
        last == x[Len(x)]
    IN IF last.c = "num" THEN Fin(sign * last.n)
       ELSE IF last.s = "nan" THEN NaN
       ELSE Inf(sign)

\* the stripped non-empty pieces of clean_text.split(",")
Pieces(clean) ==
    LET stripped == [i \in 1..Len(SplitComma(clean)) |-> Strip(SplitComma(clean)[i])]
        NonEmpty(x) == x # <<>>
    IN SelectSeq(stripped, NonEmpty)

None == [Length_pack |-> NaN, Width_pack |-> NaN, Height_pack |-> NaN,
         Energy |-> NaN, Total_Voltage |-> NaN, none |-> TRUE]

PackSpec(l, w, h, e, v) ==
    [Length_pack |-> l, Width_pack |-> w, Height_pack |-> h,
     Energy |-> e, Total_Voltage |-> v, none |-> FALSE]

\* mutant: five or more values are accepted and the first five are taken
parse_input_AtLeastFive(text) ==
    LET clean == clean_text(text)
        pieces == Pieces(clean)
    IN IF Cardinality(extracted(clean)) = 5
       THEN PackSpec(MatchGroup2(clean, "Length_pack"), MatchGroup2(clean, "Width_pack"),
                     MatchGroup2(clean, "Height_pack"), MatchGroup2(clean, "Energy"),
                     MatchGroup2(clean, "Total_Voltage"))
       ELSE IF \E i \in 1..Len(pieces) : ~FloatOk(pieces[i])
       THEN None
       ELSE IF Len(pieces) >= 5
       THEN PackSpec(FloatOf(pieces[1]), FloatOf(pieces[2]), FloatOf(pieces[3]),
                     FloatOf(pieces[4]), FloatOf(pieces[5]))
       ELSE None

parse_input(text) ==
    LET clean == clean_text(text)
        pieces == Pieces(clean)
    IN IF Cardinality(extracted(clean)) = 5
       THEN PackSpec(MatchGroup2(clean, "Length_pack"), MatchGroup2(clean, "Width_pack"),
                     MatchGroup2(clean, "Height_pack"), MatchGroup2(clean, "Energy"),
                     MatchGroup2(clean, "Total_Voltage"))
       ELSE IF \E i \in 1..Len(pieces) : ~FloatOk(pieces[i])
       THEN None
       ELSE IF Len(pieces) = 5
       THEN PackSpec(FloatOf(pieces[1]), FloatOf(pieces[2]), FloatOf(pieces[3]),
                     FloatOf(pieces[4]), FloatOf(pieces[5]))
       ELSE None

\* ------------------------------------------------- the two remote services
CellFields == <<"Length_cell", "Width_cell", "Height_cell", "Power_density">>

\* a JSON value of one prediction field; numbers are held in hundredths
PredValue(t, v) == [t |-> t, v |-> v]
Missing == PredValue("missing", 0)
PredValues == {Missing, PredValue("num", 1250), PredValue("numstr", 350),
               PredValue("badstr", 0), PredValue("null", 0)}

\* the members of a predictions object: the four cell fields, and as fifth
\* whether it has any other member
AllNumbers == [f \in 1..5 |-> IF f <= 4 THEN PredValue("num", 4000 + 137 * f) ELSE Missing]
NoFields == [f \in 1..5 |-> Missing]
OtherMember == [NoFields EXCEPT ![5] = PredValue("num", 100)]

\* the `predictions` member of the decoded body
Predictions(shape, fields) == [shape |-> shape, fields |-> fields]
PredObjects == {Predictions("object", [AllNumbers EXCEPT ![f] = v]) : f \in 1..4, v \in PredValues}
\* absent, null, a falsy value that is no object ([], 0, ""), a non-empty
\* list, the empty object, an object without any of the four cell fields
PredOthers ==
    {Predictions(sh, NoFields) : sh \in {"absent", "null", "falsy", "list", "object"}}
    \cup {Predictions("object", OtherMember)}

\* the `deepseek_analysis` member of the decoded body
Analysis(shape, text) == [shape |-> shape, text |-> text]
GreatPack == <<Word("Great pack!")>>
RateLimited == <<Word("rate limited")>>
AnalysisShapes == {Analysis("absent", <<>>), Analysis("str", GreatPack),
                   Analysis("message", RateLimited), Analysis("object", <<>>),
                   Analysis("null", <<>>)}

\* a response body: undecodable text, a JSON value that is no object, or an object
Body(shape, p, d) == [shape |-> shape, predictions |-> p, deepseek_analysis |-> d]
NoBody == Body("none", Predictions("absent", NoFields), Analysis("absent", <<>>))
Bodies ==
    {Body("text", NoBody.predictions, NoBody.deepseek_analysis),
     Body("list", NoBody.predictions, NoBody.deepseek_analysis)}
    \cup {Body("object", p, Analysis("str", GreatPack)) : p \in PredObjects \cup PredOthers}
    \cup {Body("object", Predictions("object", AllNumbers), d) : d \in AnalysisShapes}

StatusCodes == {200, 201, 404, 500}

\* what `await client_http.post(...)` produces: a response, or an exception
\* (transport failure, 30 s timeout) that leaves `res` unbound
Response(raised, status, body) == [raised |-> raised, status |-> status, body |-> body]
NoRes == Response("", 0, NoBody)
PostOutcomes ==
    {Response("", st, b) : st \in StatusCodes, b \in Bodies}
    \cup {Response(e, 0, NoBody) : e \in {"ConnectError", "ReadTimeout"}}

\* what client.chat.completions.create produces
Completion(raised, choices) == [raised |-> raised, choices |-> choices]
ReplyText == <<Word("Keep the cells below 45 C.")>>
CompletionOutcomes ==
    {Completion("", <<ReplyText>>), Completion("", <<>>), Completion("APIConnectionError", <<>>)}

\* ---------------------------------------------------------- UI messages
Content(tpl, code, text, body, err, nums) ==
    [tpl |-> tpl, code |-> code, text |-> text, body |-> body, err |-> err, nums |-> nums]
Plain(tpl) == Content(tpl, 0, <<>>, NoBody, "", <<0, 0, 0, 0>>)
NoMessage == Plain("none")
Removed == Plain("removed")
Analyzing == Plain("analyzing")
Thinking(dots) == [Plain("thinking") EXCEPT !.code = dots]
ApiFailed(status, body) == [Plain("api_failed") EXCEPT !.code = status, !.body = body]
DecodeError(body, err) == [Plain("decode_error") EXCEPT !.body = body, !.err = err]
NoPredictions == Plain("no_predictions")
InvalidData(body, err) == [Plain("invalid_data") EXCEPT !.body = body, !.err = err]
PredMsg(nums) == [Plain("pred_msg") EXCEPT !.nums = nums]
Text(text) == [Plain("text") EXCEPT !.text = text]
DeepSeekError(text) == [Plain("deepseek_error") EXCEPT !.text = text]
InvalidAnalysis == Plain("invalid_analysis")
FollowUpFailed(err) == [Plain("followup_failed") EXCEPT !.err = err]
Unexpected(name) == [Plain("unexpected") EXCEPT !.err = name]

Sent(content, author) == [content |-> content, author |-> author]

\* ------------------------------------------------------- chat_history
Entry(role, content) == [role |-> role, content |-> content]
SystemEntry == Entry("system", <<Word("You are GotionGPT ...")>>)
AnalyzePrompt == <<Word("Analyze this battery pack and predicted cell specs.")>>

\* ------------------------------------------- the steps of the prediction
\* mutant: only server errors are treated as a failed call
StatusFailed_ServerErrorsOnly(status) == status >= 500

\* `if status != 200`
StatusFailed(status) == status # 200

\* `if not predictions`: None and the empty dict are falsy
Falsy(p) ==
    \/ p.shape \in {"absent", "null", "falsy"}
    \/ p.shape = "object" /\ \A f \in 1..5 : p.fields[f].t = "missing"

\* float(predictions.get(field, 0)): the exception it raises, "" when none
FloatError(v) ==
    IF v.t = "badstr" THEN "ValueError" ELSE IF v.t = "null" THEN "TypeError" ELSE ""
\* mutant: a missing field defaults to 1
FloatPred_MissingIsOne(v) == IF v.t = "missing" THEN 100 ELSE v.v

FloatPred(v) == IF v.t = "missing" THEN 0 ELSE v.v

\* the first of the four coercions that raises
CoercionError(p) ==
    IF \A f \in 1..4 : FloatError(p.fields[f]) = "" THEN ""
    ELSE FloatError(p.fields[Min({f \in 1..4 : FloatError(p.fields[f]) # ""})])

\* f"{x:.0f}" of a non-negative value in hundredths: round half to even
Fmt0(h) ==
    LET q == h \div 100
        r == h % 100
    IN IF r > 50 THEN q + 1
       ELSE IF r < 50 THEN q
       ELSE IF q % 2 = 0 THEN q ELSE q + 1

\* f"{x:.2f}" of a value in hundredths
Fmt2(h) == h

pred_msg(p) ==
    PredMsg(<<Fmt0(FloatPred(p.fields[1])), Fmt0(FloatPred(p.fields[2])),
              Fmt0(FloatPred(p.fields[3])), Fmt2(FloatPred(p.fields[4]))>>)

\* data.get("deepseek_analysis", "")
deepseek(body) ==
    IF body.deepseek_analysis.shape = "absent" THEN Analysis("str", <<>>)
    ELSE body.deepseek_analysis

\* where lines 103-140 leave with the outcome r of the POST
Verdict(r) ==
    IF r.raised # "" THEN "UnboundLocalError"
    ELSE IF StatusFailed(r.status) THEN "api_failed"
    ELSE IF r.body.shape = "text" THEN "decode_error"
    ELSE IF r.body.shape # "object" THEN "AttributeError"
    ELSE IF Falsy(r.body.predictions) THEN "no_predictions"
    ELSE IF r.body.predictions.shape # "object" THEN "AttributeError"
    ELSE IF CoercionError(r.body.predictions) # "" THEN "invalid_data"
    ELSE "ok"

\* the verdicts on which the code reaches an analyzing_task.cancel()
Cancels(verdict) == verdict # "AttributeError"

\* the verdicts that leave handle_message's try block as an exception
Escapes(verdict) == verdict \in {"UnboundLocalError", "AttributeError"}

\* the status message after lines 103-140
StatusAfter(old, r) ==
    LET v == Verdict(r)
    IN IF v = "api_failed" THEN ApiFailed(r.status, r.body)
       ELSE IF v = "decode_error" THEN DecodeError(r.body, "JSONDecodeError")
       ELSE IF v = "no_predictions" THEN NoPredictions
       ELSE IF v = "invalid_data" THEN InvalidData(r.body, CoercionError(r.body.predictions))
       ELSE IF v = "ok" THEN Removed
       ELSE old

\* mutant: the catch-all swallows the exception without a message
CatchAll_Silent(out, name) == out

\* lines 189-194
CatchAll(out, name) == Append(out, Sent(Unexpected(name), "default"))

\* mutant: the two appends in swapped order
AppendAnalysis_Swapped(h, text) ==
    Append(Append(h, Entry("assistant", text)), Entry("user", AnalyzePrompt))

\* mutant: the synthetic user prompt is not appended
AppendAnalysis_NoPrompt(h, text) == Append(h, Entry("assistant", text))

\* lines 152-153
AppendAnalysis(h, text) ==
    Append(Append(h, Entry("user", AnalyzePrompt)), Entry("assistant", text))

\* mutant: the error message of the analysis service is appended as well
AnalysisHistory_AppendsServiceError(h, d) ==
    IF d.shape \in {"str", "message"} THEN AppendAnalysis(h, d.text) ELSE h

\* lines 151-158: the history and the message of each shape of the analysis
AnalysisHistory(h, d) == IF d.shape = "str" THEN AppendAnalysis(h, d.text) ELSE h
AnalysisMessage(d) ==
    IF d.shape = "str" THEN Sent(Text(d.text), "DeepSeek AI")
    ELSE IF d.shape = "message" THEN Sent(DeepSeekError(d.text), "DeepSeek AI")
    ELSE Sent(InvalidAnalysis, "default")

\* mutant: the follow-up is inserted at the front of the history
AppendFollowUp_Prepend(h, text) == <<Entry("user", Strip(text))>> \o h

\* lines 162-163
AppendFollowUp(h, text) == Append(h, Entry("user", Strip(text)))

\* lines 170-181: the exception caught by `except Exception as api_err`
CompletionError(c) ==
    IF c.raised # "" THEN c.raised
    ELSE IF c.choices = <<>> THEN "IndexError"
    ELSE ""
ReplyOf(c) ==
    IF CompletionError(c) = "" THEN Text(c.choices[1]) ELSE FollowUpFailed(CompletionError(c))

\* mutant: the error string is appended as an assistant entry
ReplyHistory_AppendsOnFailure(h, c) ==
    IF CompletionError(c) = "" THEN Append(h, Entry("assistant", c.choices[1]))
    ELSE Append(h, Entry("assistant", <<Word(CompletionError(c))>>))
\* mutant: the reply is appended twice
ReplyHistory_Twice(h, c) ==
    IF CompletionError(c) = "" THEN Append(Append(h, Entry("assistant", c.choices[1])),
                                           Entry("assistant", c.choices[1]))
    ELSE h

ReplyHistory(h, c) ==
    IF CompletionError(c) = "" THEN Append(h, Entry("assistant", c.choices[1])) ELSE h

\* ------------------------------------------------------------ the state
\* the sessions whose messages the process handles; handle_message runs
\* once per inbound message of a session
Sessions == {"a", "b"}
\* the session of a front-end that hands over one message at a time
OneAtATime == {"a"}

SpecText == <<Num(1000), Sep(","), Sp, Num(1600), Sep(","), Sp, Num(1500),
              Sep(","), Sp, Num(60), Sep(","), Sp, Num(400)>>
FollowUpText == <<Sp, Word("what about thermal safety?")>>
FourNumbers == <<Num(1), Sep(","), Num(2), Sep(","), Num(3), Sep(","), Num(4)>>
Messages == {SpecText, FollowUpText, FourNumbers}

\* an asyncio task running animate_thinking: st is where the coroutine
\* stands, cancelled whether cancel() was called on it, i its loop counter
Task(st, cancelled, i) == [st |-> st, cancelled |-> cancelled, i |-> i]
NoTask == Task("none", FALSE, 0)
Running(t) == t.st \in {"created", "updating", "sleeping"} /\ ~t.cancelled

VARIABLES
    chat_history,   \* the module-level list
    pc,             \* per session: where its handle_message stands
    message,        \* per session: message.content of the turn
    input_data,     \* per session: the result of parse_input
    status_msg,     \* per session: what analyzing_msg / thinking_msg shows
    task,           \* per session: analyzing_task / animation_task
    res,            \* per session: the outcome of the POST
    reply,          \* per session: the reply of the follow-up branch
    sent,           \* per session: the messages sent by the turn, in order
    hist0,          \* per session: chat_history when the turn was entered
    turns,          \* number of messages received so far
    orphans         \* indicator tasks still running whose turn was replaced

vars == <<chat_history, pc, message, input_data, status_msg, task, res, reply,
          sent, hist0, turns, orphans>>

Init ==
    /\ chat_history = <<SystemEntry>>
    /\ pc = [s \in Sessions |-> "idle"]
    /\ message = [s \in Sessions |-> <<>>]
    /\ input_data = [s \in Sessions |-> None]
    /\ status_msg = [s \in Sessions |-> NoMessage]
    /\ task = [s \in Sessions |-> NoTask]
    /\ res = [s \in Sessions |-> NoRes]
    /\ reply = [s \in Sessions |-> NoMessage]
    /\ sent = [s \in Sessions |-> <<>>]
    /\ hist0 = [s \in Sessions |-> <<SystemEntry>>]
    /\ turns = 0
    /\ orphans = 0

\* ------------------------------------------------------- handle_message
\* lines 93-98 (a spec) or 93-96 and 162-166 (anything else), up to the
\* await of the status message's send()
Receive(s, text) ==
    /\ pc[s] \in {"idle", "done"}
    /\ turns < MaxTurns
    /\ turns' = turns + 1
    /\ orphans' = IF Running(task[s]) THEN orphans + 1 ELSE orphans
    /\ message' = [message EXCEPT ![s] = text]
    /\ input_data' = [input_data EXCEPT ![s] = parse_input(text)]
    /\ hist0' = [hist0 EXCEPT ![s] = chat_history]
    /\ task' = [task EXCEPT ![s] = NoTask]
    /\ res' = [res EXCEPT ![s] = NoRes]
    /\ reply' = [reply EXCEPT ![s] = NoMessage]
    /\ sent' = [sent EXCEPT ![s] = <<>>]
    /\ IF ~parse_input(text).none
       THEN /\ status_msg' = [status_msg EXCEPT ![s] = Analyzing]
            /\ pc' = [pc EXCEPT ![s] = "p_send"]
            /\ UNCHANGED chat_history
       ELSE /\ chat_history' = AppendFollowUp(chat_history, text)
            /\ status_msg' = [status_msg EXCEPT ![s] = Thinking(0)]
            /\ pc' = [pc EXCEPT ![s] = "f_send"]

\* lines 99-103: create the indicator task and await the POST
StartPrediction(s) ==
    /\ pc[s] = "p_send"
    /\ task' = [task EXCEPT ![s] = Task("created", FALSE, 0)]
    /\ pc' = [pc EXCEPT ![s] = "p_post"]
    /\ UNCHANGED <<chat_history, message, input_data, status_msg, res, reply,
                   sent, hist0, turns, orphans>>

\* lines 103-140, and 189-194 when an exception leaves the branch
PostReturns(s, r) ==
    /\ pc[s] = "p_post"
    /\ res' = [res EXCEPT ![s] = r]
    /\ task' = [task EXCEPT ![s].cancelled = @ \/ Cancels(Verdict(r))]
    /\ status_msg' = [status_msg EXCEPT ![s] = StatusAfter(@, r)]
    /\ sent' = [sent EXCEPT ![s] = IF Escapes(Verdict(r)) THEN CatchAll(@, Verdict(r)) ELSE @]
    /\ pc' = [pc EXCEPT ![s] = IF Verdict(r) = "ok" THEN "p_removed" ELSE "done"]
    /\ UNCHANGED <<chat_history, message, input_data, reply, hist0, turns, orphans>>

\* lines 142-149: the dimensions summary
SendSummary(s) ==
    /\ pc[s] = "p_removed"
    /\ sent' = [sent EXCEPT ![s] = Append(@, Sent(pred_msg(res[s].body.predictions), "default"))]
    /\ pc' = [pc EXCEPT ![s] = "p_summary"]
    /\ UNCHANGED <<chat_history, message, input_data, status_msg, task, res,
                   reply, hist0, turns, orphans>>

\* lines 151-159: the analysis
SendAnalysis(s) ==
    /\ pc[s] = "p_summary"
    /\ chat_history' = AnalysisHistory(chat_history, deepseek(res[s].body))
    /\ sent' = [sent EXCEPT ![s] = Append(@, AnalysisMessage(deepseek(res[s].body)))]
    /\ pc' = [pc EXCEPT ![s] = "done"]
    /\ UNCHANGED <<message, input_data, status_msg, task, res, reply, hist0,
                   turns, orphans>>

\* lines 167-175: create the indicator task and await the completion call
StartCompletion(s) ==
    /\ pc[s] = "f_send"
    /\ task' = [task EXCEPT ![s] = Task("created", FALSE, 0)]
    /\ pc' = [pc EXCEPT ![s] = "f_call"]
    /\ UNCHANGED <<chat_history, message, input_data, status_msg, res, reply,
                   sent, hist0, turns, orphans>>

\* lines 170-185: the call returns or raises; the finally block
CompletionReturns(s, c) ==
    /\ pc[s] = "f_call"
    /\ chat_history' = ReplyHistory(chat_history, c)
    /\ reply' = [reply EXCEPT ![s] = ReplyOf(c)]
    /\ task' = [task EXCEPT ![s].cancelled = TRUE]
    /\ status_msg' = [status_msg EXCEPT ![s] = Removed]
    /\ pc' = [pc EXCEPT ![s] = "f_removed"]
    /\ UNCHANGED <<message, input_data, res, sent, hist0, turns, orphans>>

\* line 187
SendReply(s) ==
    /\ pc[s] = "f_removed"
    /\ sent' = [sent EXCEPT ![s] = Append(@, Sent(reply[s], "DeepSeek AI"))]
    /\ pc' = [pc EXCEPT ![s] = "done"]
    /\ UNCHANGED <<chat_history, message, input_data, status_msg, task, res,
                   reply, hist0, turns, orphans>>

\* ----------------------------------------------------- animate_thinking
\* a task on which cancel() was called gets CancelledError at its next
\* resumption, so it runs its loop only while no cancel() was called
\* mutant: the loop goes on although cancel() was called
Resumes_IgnoresCancel(t) == TRUE

Resumes(t) == ~t.cancelled

\* lines 31-34: the first pass of the loop sets the text and awaits update()
AnimateFirst(s) ==
    /\ task[s].st = "created"
    /\ Resumes(task[s])
    /\ task' = [task EXCEPT ![s].st = "updating"]
    /\ UNCHANGED <<chat_history, pc, message, input_data, status_msg, res, reply,
                   sent, hist0, turns, orphans>>

\* lines 34-35: update() has shown the text; the sleep is awaited
AnimateShown(s) ==
    /\ task[s].st = "updating"
    /\ Resumes(task[s])
    /\ task' = [task EXCEPT ![s].st = "sleeping"]
    /\ status_msg' = [status_msg EXCEPT ![s] = Thinking(task[s].i % 4)]
    /\ UNCHANGED <<chat_history, pc, message, input_data, res, reply, sent,
                   hist0, turns, orphans>>

\* lines 36, 32-34: the sleep is over, the next pass of the loop
AnimateTick(s) ==
    /\ task[s].st = "sleeping"
    /\ Resumes(task[s])
    /\ task[s].i < MaxTicks
    /\ task' = [task EXCEPT ![s].i = @ + 1, ![s].st = "updating"]
    /\ UNCHANGED <<chat_history, pc, message, input_data, status_msg, res, reply,
                   sent, hist0, turns, orphans>>

\* lines 37-38: CancelledError, delivered at the await the task stands at, is
\* caught and the coroutine returns; a task cancelled before its first step
\* never enters the try block and ends as a cancelled task
AnimateCancelled(s) ==
    /\ task[s].st \in {"created", "updating", "sleeping"}
    /\ task[s].cancelled
    /\ task' = [task EXCEPT ![s].st = IF task[s].st = "created" THEN "cancelled" ELSE "finished"]
    /\ UNCHANGED <<chat_history, pc, message, input_data, status_msg, res,
                   reply, sent, hist0, turns, orphans>>

\* one message at a time
Next ==
    \/ \E s \in OneAtATime, text \in Messages : Receive(s, text)
    \/ \E s \in OneAtATime : StartPrediction(s)
    \/ \E s \in OneAtATime, r \in PostOutcomes : PostReturns(s, r)
    \/ \E s \in OneAtATime : SendSummary(s)
    \/ \E s \in OneAtATime : SendAnalysis(s)
    \/ \E s \in OneAtATime : StartCompletion(s)
    \/ \E s \in OneAtATime, c \in CompletionOutcomes : CompletionReturns(s, c)
    \/ \E s \in OneAtATime : SendReply(s)
    \/ \E s \in OneAtATime : AnimateFirst(s)
    \/ \E s \in OneAtATime : AnimateShown(s)
    \/ \E s \in OneAtATime : AnimateTick(s)
    \/ \E s \in OneAtATime : AnimateCancelled(s)

Spec == Init /\ [][Next]_vars

\* ------------------------------------------------- the parser on its own
\* the inbound texts the parser is tried on
\* largest number of comma-separated pieces of a text
MaxPieces == 6

\* the numbers of the welcome text's example, and more for longer texts
Example == <<1000, 1600, 1500, 60, 400>>
PosVal(i) == IF i <= 5 THEN Example[i] ELSE 7 + i

PieceForms == {"num", "neg", "inf", "nan", "padded", "word"}
FewForms == {"num", "inf", "word", "label"}
Piece(form, i) ==
    IF form = "num" THEN <<Num(PosVal(i))>>
    ELSE IF form = "neg" THEN <<Minus, Num(PosVal(i))>>
    ELSE IF form = "inf" THEN <<FloatLit("inf")>>
    ELSE IF form = "nan" THEN <<FloatLit("nan")>>
    ELSE IF form = "padded" THEN <<Sp, Num(PosVal(i)), Sp>>
    ELSE IF form = "label" THEN <<Kw("width"), Sp, Num(PosVal(i))>>
    ELSE <<Word("about")>>

Delimiters == {","} \cup AltDelimiters

\* the k pieces written one after the other, piece i+1 after delimiter i
RECURSIVE Joined(_, _, _)
Joined(k, forms, delims) ==
    IF k = 0 THEN <<>>
    ELSE IF k = 1 THEN Piece(forms[1], 1)
    ELSE Joined(k - 1, forms, delims) \o <<Sep(delims[k - 1])>> \o Piece(forms[k], k)

Commas == [i \in 1..MaxPieces |-> ","]
DigitRuns == [i \in 1..MaxPieces |-> "num"]

\* five pieces of every form, separated by commas
FiveTexts == {Joined(5, forms, Commas) : forms \in [1..5 -> PieceForms]}
\* five numbers separated by every choice of delimiters, with or without a
\* trailing delimiter
DelimiterTexts ==
    {Joined(5, DigitRuns, delims) \o tail :
        delims \in [1..4 -> Delimiters], tail \in {<<>>, <<Sep(",")>>, <<Sep(";"), Sp>>}}
\* fewer or more than five pieces
CountTexts ==
    UNION {{Joined(k, forms, Commas) : forms \in [1..k -> FewForms]} : k \in 0..MaxPieces}

\* keyword-number pairs: field f under the keyword kws[f], in the order perm
Keywords == [Length_pack |-> <<"length", "long">>,
             Width_pack |-> <<"width", "wide">>,
             Height_pack |-> <<"height", "tall">>,
             Energy |-> <<"energy", "capacity">>,
             Total_Voltage |-> <<"voltage", "voltage">>]
Pair(f, alt, upper) ==
    <<IF upper THEN UpperKw(Keywords[FieldNames[f]][alt]) ELSE Kw(Keywords[FieldNames[f]][alt]),
      Sp, Num(Example[f])>>
Joiners == {<<Sp>>, <<Sep(","), Sp>>, <<Sep(";")>>}
RECURSIVE Pairs(_, _, _, _, _)
Pairs(k, perm, alts, upper, joiner) ==
    IF k = 0 THEN <<>>
    ELSE IF k = 1 THEN Pair(perm[1], alts[perm[1]], upper)
    ELSE Pairs(k - 1, perm, alts, upper, joiner) \o joiner
             \o Pair(perm[k], alts[perm[k]], upper)
Permutations5 == {p \in [1..5 -> 1..5] : \A i, j \in 1..5 : i # j => p[i] # p[j]}
LabelledTexts ==
    {Pairs(5, perm, alts, upper, joiner) :
        perm \in Permutations5, alts \in [1..5 -> 1..2], upper \in BOOLEAN, joiner \in Joiners}
\* only some of the pairs
PartialTexts ==
    {Pairs(k, perm, [f \in 1..5 |-> 1], FALSE, joiner) :
        k \in 1..4, perm \in Permutations5, joiner \in Joiners}

Texts == FiveTexts \cup DelimiterTexts \cup CountTexts \cup LabelledTexts \cup PartialTexts

\* the process right after start, with one message about to arrive
InitParse ==
    /\ chat_history = <<SystemEntry>>
    /\ pc = [s \in Sessions |-> "idle"]
    /\ \E text \in Texts : message = [s \in Sessions |-> IF s \in OneAtATime THEN text ELSE <<>>]
    /\ input_data = [s \in Sessions |-> None]
    /\ status_msg = [s \in Sessions |-> NoMessage]
    /\ task = [s \in Sessions |-> NoTask]
    /\ res = [s \in Sessions |-> NoRes]
    /\ reply = [s \in Sessions |-> NoMessage]
    /\ sent = [s \in Sessions |-> <<>>]
    /\ hist0 = [s \in Sessions |-> <<SystemEntry>>]
    /\ turns = 0
    /\ orphans = 0

\* lines 93-96: the message is parsed and the turn is routed
Dispatch(s) ==
    /\ turns = 0
    /\ Receive(s, message[s])

NextParse ==
    \/ \E s \in OneAtATime : Dispatch(s)
    \/ \E s \in OneAtATime : StartPrediction(s)
    \/ \E s \in OneAtATime : StartCompletion(s)

SpecParse == InitParse /\ [][NextParse]_vars

\* ----------------------------------------- two sessions on one process
\* handle_message coroutines of two sessions interleave at their awaits on
\* the one module-level chat_history
\* largest number of messages received by the two sessions together
MaxOverlap == 2
OtherFollowUp == <<Word("and the cycle life?")>>
OtherReply == <<Word("About 3000 cycles.")>>
OverlapMessages == {FollowUpText, OtherFollowUp, SpecText}
OverlapPosts ==
    {Response("", 200, Body("object", Predictions("object", AllNumbers), Analysis("str", GreatPack))),
     Response("", 500, Body("text", NoBody.predictions, NoBody.deepseek_analysis))}
OverlapCompletions == CompletionOutcomes \cup {Completion("", <<OtherReply>>)}

\* a message of either session arrives, whatever the other session is at
ReceiveAny(s, text) ==
    /\ turns < MaxOverlap
    /\ Receive(s, text)

\* the steps of the two handle_message coroutines; the indicator tasks write
\* their own status message only and are left to Spec
NextConcurrent ==
    \/ \E s \in Sessions, text \in OverlapMessages : ReceiveAny(s, text)
    \/ \E s \in Sessions : StartPrediction(s)
    \/ \E s \in Sessions, r \in OverlapPosts : PostReturns(s, r)
    \/ \E s \in Sessions : SendSummary(s)
    \/ \E s \in Sessions : SendAnalysis(s)
    \/ \E s \in Sessions : StartCompletion(s)
    \/ \E s \in Sessions, c \in OverlapCompletions : CompletionReturns(s, c)
    \/ \E s \in Sessions : SendReply(s)

SpecConcurrent == Init /\ [][NextConcurrent]_vars

\* ============================================================== claims
IsSpecTurn(s) == ~input_data[s].none
IsFollowUpTurn(s) == input_data[s].none /\ pc[s] # "idle"
ErrorTemplates == {"api_failed", "decode_error", "no_predictions", "invalid_data"}
ShowsThinking(s) == status_msg[s].tpl \in {"analyzing", "thinking"}
PredictionSucceeded(s) ==
    /\ IsSpecTurn(s)
    /\ res[s].raised = ""
    /\ res[s].status = 200
    /\ res[s].body.shape = "object"
    /\ res[s].body.predictions.shape = "object"
    /\ \E f \in 1..5 : res[s].body.predictions.fields[f].t # "missing"
    /\ \A f \in 1..4 : res[s].body.predictions.fields[f].t \in {"missing", "num", "numstr"}
IsPrefix(h, g) == Len(h) <= Len(g) /\ SubSeq(g, 1, Len(h)) = h

\* C1: in every turn that started an indicator, once the turn has emitted a
\* message or has ended, the indicator has been cancelled and the status
\* message shows an error text or is removed, never the thinking text.
C1_ClearedBeforeFinalMessage ==
    \A s \in Sessions :
        (task[s].st # "none" /\ (pc[s] = "done" \/ sent[s] # <<>>))
            => (task[s].cancelled /\ ~ShowsThinking(s))

\* C2: when a turn has ended, no indicator task it created is still running
\* (every created task had cancel() called on it).
C2_TaskCancelledOnEveryExit ==
    \A s \in Sessions : pc[s] = "done" => ~Running(task[s])

\* C3: chat_history always starts with the system entry, holds exactly one
\* system entry, and every step leaves the old history as a prefix of the new.
C3_HistoryAppendOnly ==
    /\ [](/\ chat_history[1] = SystemEntry
          /\ Cardinality({i \in 1..Len(chat_history) : chat_history[i].role = "system"}) = 1)
    /\ [][IsPrefix(chat_history, chat_history')]_vars

C3_Witness ==
    /\ Len(chat_history) >= 5
    /\ \E s \in Sessions : pc[s] = "done" /\ reply[s].tpl = "followup_failed"

\* C4 as stated: a finished turn has sent exactly one message, or has sent
\* nothing and shows an error on its status message.
C4_ExactlyOneOutcomeMessage ==
    \A s \in Sessions :
        pc[s] = "done" =>
            \/ Len(sent[s]) = 1
            \/ sent[s] = <<>> /\ status_msg[s].tpl \in ErrorTemplates

\* C4 amended: a finished turn ends in one of four ways: an error on the
\* status message and nothing sent; the status message removed and one reply
\* sent; the status message removed and the dimensions summary followed by
\* one analysis message sent; or, exactly when an exception left the branch,
\* the one generic message naming the exception's type.
C4_NoSilentTurn ==
    \A s \in Sessions :
        pc[s] = "done" =>
            /\ \/ sent[s] = <<>> /\ status_msg[s].tpl \in ErrorTemplates
               \/ /\ Len(sent[s]) = 1
                  /\ status_msg[s] = Removed
                  /\ sent[s][1].content.tpl \in {"text", "followup_failed"}
               \/ /\ Len(sent[s]) = 2
                  /\ status_msg[s] = Removed
                  /\ sent[s][1].content.tpl = "pred_msg"
                  /\ sent[s][2].content.tpl \in {"text", "deepseek_error", "invalid_analysis"}
               \/ /\ Len(sent[s]) = 1
                  /\ sent[s][1].content.tpl = "unexpected"
                  /\ sent[s][1].content.err \in {"UnboundLocalError", "AttributeError"}
            /\ (\E i \in 1..Len(sent[s]) : sent[s][i].content.tpl = "unexpected")
                   <=> (IsSpecTurn(s) /\ (\/ res[s].raised # ""
                                           \/ /\ res[s].status = 200
                                              /\ res[s].body.shape = "list"
                                           \/ /\ res[s].status = 200
                                              /\ res[s].body.shape = "object"
                                              /\ res[s].body.predictions.shape = "list"))

C4_Witness ==
    \E s \in Sessions :
        /\ pc[s] = "done"
        /\ turns >= 2
        /\ Len(sent[s]) = 2
        /\ Len(hist0[s]) >= 2

\* C5: a turn whose prediction failed (POST raised, non-2xx status,
\* undecodable body, predictions absent, a field that is no number) ends with
\* an error on the status message and never with the generic message.
PredictionPathFailure(r) ==
    \/ r.raised # ""
    \/ /\ r.status # 0
       /\ \/ r.status \notin 200..299
          \/ r.body.shape = "text"
          \/ /\ r.body.shape = "object"
             /\ \/ r.body.predictions.shape = "absent"
                \/ /\ r.body.predictions.shape = "object"
                   /\ \E f \in 1..4 : r.body.predictions.fields[f].t \in {"badstr", "null"}
C5_PredictionFailuresHandledLocally ==
    \A s \in Sessions :
        (pc[s] = "done" /\ IsSpecTurn(s) /\ PredictionPathFailure(res[s])) =>
            /\ status_msg[s].tpl \in ErrorTemplates
            /\ \A i \in 1..Len(sent[s]) : sent[s][i].content.tpl # "unexpected"

\* C6: a turn whose POST returned a non-2xx status has cancelled the
\* indicator, shows the error with that status code and the raw body on the
\* status message, has sent no message and has left chat_history as it was.
C6_Non2xxStatus ==
    \A s \in Sessions :
        (pc[s] = "done" /\ IsSpecTurn(s) /\ res[s].status # 0
            /\ res[s].status \notin 200..299) =>
            /\ task[s].cancelled
            /\ status_msg[s] = ApiFailed(res[s].status, res[s].body)
            /\ sent[s] = <<>>
            /\ chat_history = hist0[s]

C6_Witness ==
    \E s \in Sessions :
        /\ pc[s] = "done"
        /\ res[s].status = 500
        /\ task[s].st = "finished"
        /\ task[s].i >= 1
        /\ Len(chat_history) >= 3

\* C7: after a successful prediction whose deepseek_analysis is a string the
\* history is the history at the start of the turn plus the synthetic user
\* prompt and then the analysis as assistant, and the turn has sent the
\* dimensions summary and then the analysis text as a message of its own.
C7_StringAnalysisAppendsPair ==
    \A s \in Sessions :
        (pc[s] = "done" /\ PredictionSucceeded(s)
            /\ res[s].body.deepseek_analysis.shape = "str") =>
            /\ chat_history = hist0[s] \o
                   <<Entry("user", AnalyzePrompt),
                     Entry("assistant", res[s].body.deepseek_analysis.text)>>
            /\ Len(sent[s]) = 2
            /\ sent[s][1].content.tpl = "pred_msg"
            /\ sent[s][2] = Sent(Text(res[s].body.deepseek_analysis.text), "DeepSeek AI")

C7_Witness ==
    \E s \in Sessions :
        /\ pc[s] = "done"
        /\ PredictionSucceeded(s)
        /\ res[s].body.deepseek_analysis = Analysis("str", GreatPack)
        /\ Len(chat_history) = Len(hist0[s]) + 2
        /\ Len(hist0[s]) >= 2

\* C8: after a successful prediction whose deepseek_analysis is absent or
\* neither a string nor an object with a message, the turn has sent the
\* "did not return a valid analysis" notice and the history is unchanged.
C8_AbsentOrUnrecognizedIsInvalid ==
    \A s \in Sessions :
        (pc[s] = "done" /\ PredictionSucceeded(s)
            /\ res[s].body.deepseek_analysis.shape \in {"absent", "object", "null"}) =>
            /\ chat_history = hist0[s]
            /\ Len(sent[s]) = 2
            /\ sent[s][2] = Sent(InvalidAnalysis, "default")

\* C9: after a successful prediction whose deepseek_analysis is an object
\* with a message field the history is unchanged and the turn has sent the
\* dimensions summary and then an error-labeled message holding that text.
C9_ServiceErrorLeavesHistory ==
    \A s \in Sessions :
        (pc[s] = "done" /\ PredictionSucceeded(s)
            /\ res[s].body.deepseek_analysis.shape = "message") =>
            /\ chat_history = hist0[s]
            /\ Len(sent[s]) = 2
            /\ sent[s][1].content.tpl = "pred_msg"
            /\ sent[s][2] = Sent(DeepSeekError(res[s].body.deepseek_analysis.text), "DeepSeek AI")

C9_Witness ==
    \E s \in Sessions :
        /\ pc[s] = "done"
        /\ PredictionSucceeded(s)
        /\ res[s].body.deepseek_analysis = Analysis("message", RateLimited)
        /\ Len(sent[s]) = 2
        /\ Len(chat_history) >= 3

\* C10: in a follow-up turn the user entry is in the history while the
\* completion call is awaited; after the call the history has the assistant
\* entry exactly when the call succeeded; after a failed call the history is
\* one entry longer than at the start of the turn and the reply that is sent
\* is the formatted error holding the failure, never the generic message.
C10_FollowUpHistory ==
    \A s \in Sessions :
        LET user == Entry("user", Strip(message[s]))
        IN /\ (pc[s] \in {"f_send", "f_call"}) => chat_history = Append(hist0[s], user)
           /\ (pc[s] = "f_removed" \/ (pc[s] = "done" /\ IsFollowUpTurn(s))) =>
                  /\ reply[s].tpl \in {"text", "followup_failed"}
                  /\ reply[s].tpl = "text" =>
                         chat_history = hist0[s] \o <<user, Entry("assistant", reply[s].text)>>
                  /\ reply[s].tpl = "followup_failed" =>
                         /\ chat_history = Append(hist0[s], user)
                         /\ reply[s].err \in {"APIConnectionError", "IndexError"}
           /\ (pc[s] = "done" /\ IsFollowUpTurn(s)) =>
                  sent[s] = <<Sent(reply[s], "DeepSeek AI")>>

C10_Witness ==
    \E s \in Sessions :
        /\ pc[s] = "done"
        /\ IsFollowUpTurn(s)
        /\ reply[s] = FollowUpFailed("APIConnectionError")
        /\ Len(chat_history) = Len(hist0[s]) + 1
        /\ Len(hist0[s]) >= 3

\* C11: from the session-start history, a spec turn that succeeds with a
\* string analysis has sent the dimensions summary and then the analysis and
\* left the history two entries longer; the follow-up turn received next
\* starts from that history; and when its completion call succeeds it has
\* sent the one reply and the history is the session-start history plus
\* synthetic prompt, analysis, follow-up text and reply.
StringAnalysisTurn(s) ==
    /\ pc[s] = "done"
    /\ PredictionSucceeded(s)
    /\ res[s].body.deepseek_analysis.shape = "str"
    /\ hist0[s] = <<SystemEntry>>
AnalysisPair(s) ==
    <<Entry("user", AnalyzePrompt), Entry("assistant", res[s].body.deepseek_analysis.text)>>
C11_SpecThenFollowUp ==
    /\ [](\A s \in Sessions :
            StringAnalysisTurn(s) =>
                /\ Len(sent[s]) = 2
                /\ sent[s][1].content.tpl = "pred_msg"
                /\ sent[s][2] = Sent(Text(res[s].body.deepseek_analysis.text), "DeepSeek AI")
                /\ chat_history = <<SystemEntry>> \o AnalysisPair(s))
    /\ [][\A s \in Sessions :
            (StringAnalysisTurn(s) /\ pc'[s] = "f_send") =>
                /\ hist0'[s] = <<SystemEntry>> \o AnalysisPair(s)
                /\ sent'[s] = <<>>]_vars
    /\ [](\A s \in Sessions :
            (/\ pc[s] = "done"
             /\ IsFollowUpTurn(s)
             /\ turns = 2
             /\ Len(hist0[s]) = 3
             /\ hist0[s][2] = Entry("user", AnalyzePrompt)
             /\ reply[s].tpl = "text") =>
                /\ sent[s] = <<Sent(reply[s], "DeepSeek AI")>>
                /\ Len(chat_history) = 1 + 4
                /\ chat_history = hist0[s] \o <<Entry("user", Strip(message[s])),
                                               Entry("assistant", reply[s].text)>>)

C11_Witness ==
    \E s \in Sessions :
        /\ pc[s] = "done"
        /\ IsFollowUpTurn(s)
        /\ turns = 2
        /\ hist0[s] = <<SystemEntry, Entry("user", AnalyzePrompt), Entry("assistant", GreatPack)>>
        /\ reply[s].tpl = "text"
        /\ Len(chat_history) = 5

\* C12: in every step taken while cancel() has been called on a session's
\* indicator task, the status message and the loop counter stay as they are
\* and the task stays where it is or ends (CancelledError caught at the
\* await, or the task cancelled before its first step); so an error text
\* written after the cancel stays on the status message.
C12_NoUpdateAfterCancel ==
    /\ [][\A s \in Sessions :
            (task[s].cancelled /\ task'[s].cancelled) =>
                /\ status_msg'[s] = status_msg[s]
                /\ task'[s].i = task[s].i
                /\ \/ task'[s].st = task[s].st
                   \/ task[s].st \in {"updating", "sleeping"} /\ task'[s].st = "finished"
                   \/ task[s].st = "created" /\ task'[s].st = "cancelled"]_vars
    /\ [](\A s \in Sessions :
            (/\ task[s].cancelled
             /\ IsSpecTurn(s)
             /\ res[s] # NoRes
             /\ Verdict(res[s]) \in ErrorTemplates) =>
                status_msg[s].tpl = Verdict(res[s]))

C12_Witness ==
    \E s \in Sessions :
        /\ task[s].cancelled
        /\ task[s].st = "finished"
        /\ task[s].i >= 1
        /\ status_msg[s].tpl = "invalid_data"

\* a text made of exactly five digit runs, each with or without a sign,
\* with a delimiter between any two of them and white space around them
FiveNumbersText(text) ==
    /\ \A i \in 1..Len(text) : text[i].c \in {"num", "sign", "sep", "sp"}
    /\ Cardinality({i \in 1..Len(text) : text[i].c = "num"}) = 5
    /\ \A i \in 1..Len(text) :
          text[i].c = "sign" =>
              /\ i < Len(text) /\ text[i+1].c = "num"
              /\ i = 1 \/ text[i-1].c \in {"sep", "sp"}
    /\ \A i, j \in 1..Len(text) :
          (i < j /\ text[i].c = "num" /\ text[j].c = "num") =>
              \E k \in (i+1)..(j-1) : text[k].c = "sep"
\* the n-th number written in the text
NthNumber(text, n) ==
    LET IsNum(i) == text[i].c = "num"
        at == SelectSeq([i \in 1..Len(text) |-> i], IsNum)[n]
    IN IF at > 1 /\ text[at - 1].c = "sign" THEN Fin(0 - text[at].n) ELSE Fin(text[at].n)

\* C13: a text of exactly five numbers separated by commas or by the
\* alternate delimiters is parsed into the PackSpec holding the five numbers
\* as length, width, height, energy, voltage, in the order written.
C13_FivePositionalNumbers ==
    \A s \in Sessions :
        (pc[s] # "idle" /\ FiveNumbersText(message[s])) =>
            /\ input_data[s] = PackSpec(NthNumber(message[s], 1), NthNumber(message[s], 2),
                                        NthNumber(message[s], 3), NthNumber(message[s], 4),
                                        NthNumber(message[s], 5))
            /\ pc[s] \in {"p_send", "p_post"}

C13_Witness ==
    \E s \in Sessions :
        /\ pc[s] = "p_post"
        /\ FiveNumbersText(message[s])
        /\ \E i, j \in 1..Len(message[s]) :
              message[s][i] = Sep("ideographic_comma") /\ message[s][j] = Sep("|")
        /\ input_data[s] = PackSpec(Fin(1000), Fin(1600), Fin(1500), Fin(60), Fin(400))

\* the text without its white space and delimiters
Words(text) ==
    LET IsWord(tok) == tok.c \notin {"sp", "sep"}
    IN SelectSeq(text, IsWord)
\* a text of five keyword-number pairs, one for each field
LabelledText(text) ==
    LET w == Words(text)
    IN /\ Len(w) = 10
       /\ \A j \in 1..5 : w[2*j - 1].c \in {"kw", "KW"} /\ w[2*j].c = "num"
       /\ \A f \in 1..5 :
             Cardinality({j \in 1..5 : w[2*j - 1].s \in field_patterns[FieldNames[f]]}) = 1
\* the number of the pair whose keyword names the field
OwnNumber(text, key) ==
    LET w == Words(text)
        j == CHOOSE j \in 1..5 : w[2*j - 1].s \in field_patterns[key]
    IN Fin(w[2*j].n)

\* C14: a text of five keyword-number pairs, in whatever order, is parsed
\* into the PackSpec that gives each field the number of its own pair.
C14_LabelledAnyOrder ==
    \A s \in Sessions :
        (pc[s] # "idle" /\ LabelledText(message[s])) =>
            /\ input_data[s] = PackSpec(OwnNumber(message[s], "Length_pack"),
                                        OwnNumber(message[s], "Width_pack"),
                                        OwnNumber(message[s], "Height_pack"),
                                        OwnNumber(message[s], "Energy"),
                                        OwnNumber(message[s], "Total_Voltage"))
            /\ input_data[s] = PackSpec(Fin(1000), Fin(1600), Fin(1500), Fin(60), Fin(400))

C14_Witness ==
    \E s \in Sessions :
        /\ pc[s] = "p_post"
        /\ LabelledText(message[s])
        /\ message[s][1] = UpperKw("voltage")
        /\ Words(message[s])[9] = UpperKw("long")
        /\ input_data[s].Length_pack = Fin(1000)
        /\ input_data[s].Total_Voltage = Fin(400)

\* every field has one of its keywords somewhere in the text
FullKeywordSet(text) ==
    \A f \in 1..5 :
        \E i \in 1..Len(text) :
            text[i].c \in {"kw", "KW"} /\ text[i].s \in field_patterns[FieldNames[f]]
\* how many of the comma-separated pieces of the text are numbers
ParseableNumbers(text) ==
    LET pieces == Pieces(clean_text(text))
    IN Cardinality({i \in 1..Len(pieces) : FloatOk(pieces[i])})

\* C15: a text without the full keyword set whose comma-separated pieces
\* hold fewer or more than five numbers is no spec: parse_input returns None
\* and the message is handled as a follow-up (its text enters the history).
C15_NotFiveIsNoMatch ==
    \A s \in Sessions :
        (pc[s] # "idle" /\ ~FullKeywordSet(message[s])
            /\ ParseableNumbers(message[s]) # 5) =>
            /\ input_data[s] = None
            /\ pc[s] \in {"f_send", "f_call"}
            /\ chat_history = <<SystemEntry, Entry("user", Strip(message[s]))>>

C15_Witness ==
    \E s \in Sessions :
        /\ pc[s] = "f_call"
        /\ ParseableNumbers(message[s]) = 6
        /\ input_data[s] = None
        /\ Len(chat_history) = 2

\* C16: the PackSpec posted to the prediction service has five finite fields.
C16_PackSpecIsFinite ==
    \A s \in Sessions :
        pc[s] = "p_post" =>
            \A f \in 1..5 : input_data[s][FieldNames[f]].k = "fin"

\* a finished or summarised spec turn whose response was a 200 with an object
DecodedObject(s) ==
    /\ IsSpecTurn(s)
    /\ res[s].raised = ""
    /\ res[s].status = 200
    /\ res[s].body.shape = "object"
BadField(p) == \E f \in 1..4 : p.fields[f].t \in {"badstr", "null"}
EmptyObject(p) == p.shape = "object" /\ \A f \in 1..5 : p.fields[f].t = "missing"
ZeroForMissing(s) ==
    /\ Len(sent[s]) >= 1
    /\ sent[s][1].content.tpl = "pred_msg"
    /\ \A f \in 1..4 :
          res[s].body.predictions.fields[f].t = "missing" => sent[s][1].content.nums[f] = 0
InvalidDataShown(s) ==
    /\ status_msg[s].tpl = "invalid_data"
    /\ status_msg[s].body.predictions = res[s].body.predictions
    /\ sent[s] = <<>>
    /\ chat_history = hist0[s]

\* C17 as stated: with a predictions object every missing field is rendered
\* as 0 and a present field that is no number gives the invalid-data error;
\* the no-predictions error is shown only when predictions is absent.
C17_ObjectAlwaysRendered ==
    \A s \in Sessions :
        (pc[s] = "done" /\ DecodedObject(s)) =>
            /\ (res[s].body.predictions.shape = "object" /\ ~BadField(res[s].body.predictions))
                   => ZeroForMissing(s)
            /\ (res[s].body.predictions.shape = "object" /\ BadField(res[s].body.predictions))
                   => InvalidDataShown(s)
            /\ status_msg[s] = NoPredictions => res[s].body.predictions.shape = "absent"

\* C17 amended: with a non-empty predictions object every missing field is
\* rendered as 0 and a present field that is no number gives the
\* invalid-data error with the raw predictions, no summary and the history
\* unchanged; the no-predictions error is shown exactly when predictions is
\* absent, null, another falsy value or the empty object.
C17_NonEmptyObjectRendered ==
    \A s \in Sessions :
        (pc[s] = "done" /\ DecodedObject(s)) =>
            /\ (/\ res[s].body.predictions.shape = "object"
                /\ ~EmptyObject(res[s].body.predictions)
                /\ ~BadField(res[s].body.predictions)) => ZeroForMissing(s)
            /\ (res[s].body.predictions.shape = "object" /\ BadField(res[s].body.predictions))
                   => InvalidDataShown(s)
            /\ status_msg[s] = NoPredictions
                   <=> \/ res[s].body.predictions.shape \in {"absent", "null", "falsy"}
                       \/ EmptyObject(res[s].body.predictions)

C17_Witness ==
    \E s \in Sessions :
        /\ pc[s] = "done"
        /\ DecodedObject(s)
        /\ res[s].body.predictions.fields[2].t = "missing"
        /\ res[s].body.predictions.fields[1].t = "num"
        /\ Len(sent[s]) = 2
        /\ sent[s][1].content.nums[2] = 0
        /\ sent[s][1].content.nums[1] = 41

Overlapped(u, t) ==
    /\ u # t
    /\ IsFollowUpTurn(u)
    /\ IsFollowUpTurn(t)
    /\ hist0[t] = AppendFollowUp(hist0[u], message[u])
    /\ reply[u].tpl = "text"
    /\ reply[t].tpl = "text"

C18_OverlapBreaksPairing ==
    \A u, t \in Sessions :
        Overlapped(u, t) =>
            LET n == Len(hist0[u]) IN
            /\ Len(chat_history) = n + 4
            /\ chat_history[n + 1] = Entry("user", Strip(message[u]))
            /\ chat_history[n + 2] = Entry("user", Strip(message[t]))
            /\ <<chat_history[n + 3].content, chat_history[n + 4].content>>
                  \in {<<reply[u].text, reply[t].text>>, <<reply[t].text, reply[u].text>>}
            /\ chat_history[n + 3].role = "assistant"
            /\ chat_history[n + 4].role = "assistant"

C18_Witness ==
    /\ Overlapped("a", "b")
    /\ pc["a"] = "done"
    /\ pc["b"] = "done"
    /\ message["a"] = FollowUpText
    /\ message["b"] = OtherFollowUp
    /\ chat_history = <<SystemEntry,
                        Entry("user", Strip(FollowUpText)), Entry("user", Strip(OtherFollowUp)),
                        Entry("assistant", OtherReply), Entry("assistant", ReplyText)>>
    /\ reply["a"].text = ReplyText
    /\ reply["b"].text = OtherReply

====
